---- MODULE Spec2Model ----
(***************************************************************************)
(* Model of lindb's root-broker job manager (parallel/job_manager.go), of   *)
(* the memory database's field store (tsdb/memdb/field_store.go) and of    *)
(* the query's tag search (query/tag_search.go).                           *)
(***************************************************************************)
EXTENDS Integers, Sequences, FiniteSets, TLC

\* ------------------------------------------------------------------ bounds
\* number of concurrent SubmitJob / SubmitMetadataJob invocations
NumCallers == 2

Callers == 1..NumCallers

\* ------------------------------------------------------- job manager: data
\* the nil error
Nil == "nil"

\* the nil JobContext GetJob returns for a job it does not find
NilJobContext == [type |-> "nil", owner |-> 0]

\* errors the transport's SendRequest may return
Errors == {"e1", "e2"}

\* models.PhysicalPlan: the indicators of the two tiers, in plan-list order
PlanEmpty == [Intermediates |-> <<>>, Leafs |-> <<>>]

PlanTwoTier == [Intermediates |-> <<"n2", "n1">>, Leafs |-> <<"n3">>]

PlanLeafOnly == [Intermediates |-> <<>>, Leafs |-> <<"n3", "n1">>]

Plans == {PlanEmpty, PlanTwoTier, PlanLeafOnly}

\* pb.RequestType: the zero value (a data query) and RequestType_Metadata
RequestType_Data == "Data"

RequestType_Metadata == "Metadata"

VARIABLES
    seq,        \* jobManager.seq, the atomic job id counter
    jobs,       \* jobManager.jobs, the sync.Map: job id -> stored value
    submitted,  \* task contexts handed to taskManager.Submit
    pc,         \* per invocation: "idle", "alloc", "send", "done"
    call,       \* per invocation: its locals (method, plan, ctx, jobID, req)
    sent,       \* per invocation: the SendRequest calls made, in order
    ret,        \* per invocation: the error returned
    allocLog    \* history: the job ids in the order seq.Inc() returned them

jobVars == <<seq, jobs, submitted, pc, call, sent, ret, allocLog>>

VARIABLES
    sStoreNodes,  \* fieldStore.sStoreNodes: the segments
    flushed,      \* the family times of the segments handed to FlushField, in call order
    last          \* the last operation on the field store and what it returned

fieldVars == <<sStoreNodes, flushed, last>>

VARIABLES
    tpc,        \* the tag search: "none", "filter" (Filter is running), "done"
    condition,  \* tagSearch.condition
    stack,      \* the pending findTagValueIDsByExpr calls, the next one first
    result,     \* tagSearch.result: rewritten filter -> tagFilterResult
    tags,       \* tagSearch.tags: the tag key cache
    tsErr,      \* tagSearch.err
    tagCalls,   \* the calls made on the metadata, in order, with their answers
    out         \* what Filter returned

tagVars == <<tpc, condition, stack, result, tags, tsErr, tagCalls, out>>

vars == <<seq, jobs, submitted, pc, call, sent, ret, allocLog, sStoreNodes, flushed, last,
          tpc, condition, stack, result, tags, tsErr, tagCalls, out>>

\* a call's locals before the call started
NoCall == [method |-> "none", plan |-> PlanEmpty, ctx |-> NilJobContext, jobID |-> 0, req |-> Nil]

\* the value a caller passes as ctx: SubmitJob takes a JobContext,
\* SubmitMetadataJob a context.Context
JobContextOf(c) == [type |-> "JobContext", owner |-> c]

ContextOf(c) == [type |-> "context.Context", owner |-> c]

\* atomic.Int64.Inc: the value after the increment
IncSame(s) == s

Inc(s) == s + 1

\* GetJob: Load, then the type assertion job.(JobContext)
GetJob(jobID) ==
    IF jobID \notin DOMAIN jobs THEN NilJobContext
    ELSE IF jobs[jobID].type # "JobContext" THEN NilJobContext
    ELSE jobs[jobID]

\* sync.Map.Store
Store(m, k, v) == [x \in DOMAIN m \cup {k} |-> IF x = k THEN v ELSE m[x]]

\* the tier SubmitJob fans out to: the intermediates if any, else the leaves
JobTierLeafFirst(plan) ==
    IF Len(plan.Leafs) > 0 THEN plan.Leafs ELSE plan.Intermediates

JobTier(plan) ==
    IF Len(plan.Intermediates) > 0 THEN plan.Intermediates
    ELSE IF Len(plan.Leafs) > 0 THEN plan.Leafs
    ELSE <<>>

\* the tier SubmitMetadataJob fans out to: the leaves
MetadataTierLikeJob(plan) == JobTier(plan)

MetadataTier(plan) ==
    IF Len(plan.Leafs) > 0 THEN plan.Leafs ELSE <<>>

Tier(c) ==
    IF call[c].method = "SubmitJob" THEN JobTier(call[c].plan)
    ELSE MetadataTier(call[c].plan)

\* the error of the last SendRequest made, nil when none was made
LastErr(c) == IF Len(sent[c]) = 0 THEN Nil ELSE sent[c][Len(sent[c])].err

JobInit ==
    /\ seq = 0
    /\ jobs = <<>>
    /\ submitted = {}
    /\ pc = [c \in Callers |-> "idle"]
    /\ call = [c \in Callers |-> NoCall]
    /\ sent = [c \in Callers |-> <<>>]
    /\ ret = [c \in Callers |-> Nil]
    /\ allocLog = <<>>

\* SubmitJob, lines 65-67: read the plan and allocate the job id
SubmitJobStart(c) ==
    /\ pc[c] = "idle"
    /\ \E plan \in Plans :
        call' = [call EXCEPT ![c] = [method |-> "SubmitJob", plan |-> plan,
                                     ctx |-> JobContextOf(c), jobID |-> Inc(seq),
                                     req |-> Nil]]
    /\ seq' = Inc(seq)
    /\ allocLog' = Append(allocLog, Inc(seq))
    /\ pc' = [pc EXCEPT ![c] = "alloc"]
    /\ UNCHANGED <<jobs, submitted, sent, ret>>
    /\ UNCHANGED <<fieldVars, tagVars>>

\* SubmitMetadataJob, lines 113-114
SubmitMetadataJobStart(c) ==
    /\ pc[c] = "idle"
    /\ \E plan \in Plans :
        call' = [call EXCEPT ![c] = [method |-> "SubmitMetadataJob", plan |-> plan,
                                     ctx |-> ContextOf(c), jobID |-> Inc(seq),
                                     req |-> Nil]]
    /\ seq' = Inc(seq)
    /\ allocLog' = Append(allocLog, Inc(seq))
    /\ pc' = [pc EXCEPT ![c] = "alloc"]
    /\ UNCHANGED <<jobs, submitted, sent, ret>>
    /\ UNCHANGED <<fieldVars, tagVars>>

\* the request kind each method puts into the TaskRequest
RequestTypeOf(method) ==
    IF method = "SubmitMetadataJob" THEN RequestType_Metadata ELSE RequestType_Data

\* taskManager.AllocTaskID: the task manager hands every call a task id of
\* its own
AllocTaskID(c) == c

\* lines 75-89 with the job stored before the fan-out
PrepareTaskStoresJob(c) ==
    /\ pc[c] = "alloc"
    /\ LET taskID == AllocTaskID(c)
       IN  /\ call' = [call EXCEPT ![c].req =
                        [JobID |-> call[c].jobID,
                         RequestType |-> RequestTypeOf(call[c].method),
                         ParentTaskID |-> taskID]]
           /\ submitted' = submitted \cup {[taskID |-> taskID, taskType |-> "RootTask"]}
    /\ jobs' = Store(jobs, call[c].jobID, call[c].ctx)
    /\ pc' = [pc EXCEPT ![c] = "send"]
    /\ UNCHANGED <<seq, sent, ret, allocLog>>
    /\ UNCHANGED <<fieldVars, tagVars>>

\* lines 75-89 / 122-134: AllocTaskID, build the one TaskRequest, Submit the
\* root task context to the task manager
PrepareTask(c) ==
    /\ pc[c] = "alloc"
    /\ LET taskID == AllocTaskID(c)
       IN  /\ call' = [call EXCEPT ![c].req =
                        [JobID |-> call[c].jobID,
                         RequestType |-> RequestTypeOf(call[c].method),
                         ParentTaskID |-> taskID]]
           /\ submitted' = submitted \cup {[taskID |-> taskID, taskType |-> "RootTask"]}
    /\ pc' = [pc EXCEPT ![c] = "send"]
    /\ UNCHANGED <<seq, jobs, sent, ret, allocLog>>
    /\ UNCHANGED <<fieldVars, tagVars>>

\* the fan-out loop goes on: no send has failed and nodes of the tier are left
LoopContinuesPastError(c) == Len(sent[c]) < Len(Tier(c))

LoopContinues(c) == LastErr(c) = Nil /\ Len(sent[c]) < Len(Tier(c))

\* one iteration of the fan-out loop: SendRequest to the next node of the tier,
\* which the transport answers with nil or an error
SendRequest(c) ==
    /\ pc[c] = "send"
    /\ LoopContinues(c)
    /\ \E e \in {Nil} \cup Errors :
        sent' = [sent EXCEPT ![c] =
                    Append(@, [target |-> Tier(c)[Len(sent[c]) + 1],
                               req |-> call[c].req, err |-> e])]
    /\ UNCHANGED <<seq, jobs, submitted, pc, call, ret, allocLog>>
    /\ UNCHANGED <<fieldVars, tagVars>>

\* the error the method returns once the loop is left
ReturnedErrorOnNoSend(c) == IF Len(sent[c]) = 0 THEN "e1" ELSE LastErr(c)

\* the error the method returns once the loop is left
ReturnedNilAlways(c) == Nil

Returned(c) == LastErr(c)

\* the deferred function's condition (lines 70, 117)
ShouldStoreAlways(err) == TRUE

ShouldStore(err) == err = Nil

\* return: the loop ended or a send failed; the deferred function stores the
\* ctx under the job id when err == nil
Return(c) ==
    /\ pc[c] = "send"
    /\ ~LoopContinues(c)
    /\ ret' = [ret EXCEPT ![c] = Returned(c)]
    /\ jobs' = IF ShouldStore(Returned(c))
               THEN Store(jobs, call[c].jobID, call[c].ctx)
               ELSE jobs
    /\ pc' = [pc EXCEPT ![c] = "done"]
    /\ UNCHANGED <<seq, submitted, call, sent, allocLog>>
    /\ UNCHANGED <<fieldVars, tagVars>>

JobNext ==
    \E c \in Callers :
        \/ SubmitJobStart(c)
        \/ SubmitMetadataJobStart(c)
        \/ PrepareTask(c)
        \/ SendRequest(c)
        \/ Return(c)


\* -------------------------------------------------------- field store: data
\* slots a write may address: 0..MaxSlot
MaxSlot == 1

\* FlushField calls the table flusher's log holds before the model stops flushing
MaxFlushes == 2

\* family times of the write contexts, and the intervals timeRange is asked with
FamilyTimes == {0, 10, 20}

Intervals == {1, 10}

Slots == 0..MaxSlot

\* the kinds of pb.Field the writer may hand in: the sum field and another one
FieldKinds == {"Sum", "Other"}

NoTimeRange == [Start |-> 0, End |-> 0, ok |-> FALSE]

NoOp == [op |-> "none", familyTime |-> 0, kind |-> "none", slot |-> 0,
         found |-> FALSE, flushed |-> FALSE, bytesOk |-> FALSE, interval |-> 0,
         bad |-> {},
         timeRange |-> NoTimeRange]

\* newSimpleFieldStore: a segment of one family time that holds no write yet
NewSimpleFieldStore(familyTime) ==
    [familyTime |-> familyTime, startSlot |-> 0, endSlot |-> 0, empty |-> TRUE]

\* sStore.writeFloat: the segment takes the value at the context's slot
WriteFloat(s, slot) ==
    IF s.empty
    THEN [s EXCEPT !.startSlot = slot, !.endSlot = slot, !.empty = FALSE]
    ELSE [s EXCEPT !.startSlot = IF slot < @ THEN slot ELSE @,
                   !.endSlot = IF slot > @ THEN slot ELSE @]

\* sort.Search(n, f) with f(i) = nodes[i].getFamilyTime() >= familyTime: the
\* binary search, indices from 0 as in the code
RECURSIVE SearchLoop(_, _, _, _)
SearchLoop(nodes, familyTime, i, j) ==
    IF i < j
    THEN LET h == (i + j) \div 2
         IN  IF ~(nodes[h + 1].familyTime >= familyTime)
             THEN SearchLoop(nodes, familyTime, h + 1, j)
             ELSE SearchLoop(nodes, familyTime, i, h)
    ELSE i

Search(nodes, familyTime) == SearchLoop(nodes, familyTime, 0, Len(nodes))

\* getSStore: ok and the index of the segment of the family time
GetSStoreNever(nodes, familyTime) == [ok |-> FALSE, idx |-> Len(nodes)]

GetSStore(nodes, familyTime) ==
    LET idx == Search(nodes, familyTime)
    IN  IF idx >= Len(nodes) \/ nodes[idx + 1].familyTime # familyTime
        THEN [ok |-> FALSE, idx |-> idx]
        ELSE [ok |-> TRUE, idx |-> idx]

\* removeSStore
RemoveSStoreFirst(nodes, familyTime) == IF Len(nodes) = 0 THEN nodes ELSE Tail(nodes)

\* removeSStore
RemoveSStoreNoop(nodes, familyTime) == nodes

RemoveSStore(nodes, familyTime) ==
    LET idx == Search(nodes, familyTime)
    IN  IF idx = Len(nodes) THEN nodes
        ELSE IF nodes[idx + 1].familyTime # familyTime THEN nodes
        ELSE [i \in 1..(Len(nodes) - 1) |->
                IF i < idx + 1 THEN nodes[i] ELSE nodes[i + 1]]

\* sort.Sort(sStoreNodes): ascending by sStoreNodes.Less, the family time
RECURSIVE InsertSorted(_, _)
InsertSorted(sorted, s) ==
    IF Len(sorted) = 0 THEN <<s>>
    ELSE IF s.familyTime < sorted[1].familyTime THEN <<s>> \o sorted
    ELSE <<sorted[1]>> \o InsertSorted(Tail(sorted), s)

RECURSIVE Sort(_)
Sort(nodes) ==
    IF Len(nodes) = 0 THEN <<>>
    ELSE InsertSorted(Sort(Tail(nodes)), nodes[1])

\* insertSStore: append, then sort
InsertSStoreNoSort(nodes, s) == Append(nodes, s)

InsertSStore(nodes, s) == Sort(Append(nodes, s))

\* timeRange: the loop over the segments; bad holds the indices of the
\* segments whose slotRange returns an error
RECURSIVE TimeRangeLoop(_, _, _, _, _)
TimeRangeLoop(nodes, interval, bad, i, tr) ==
    IF i > Len(nodes) THEN tr
    ELSE IF i \in bad THEN TimeRangeLoop(nodes, interval, bad, i + 1, tr)
    ELSE LET startTime == nodes[i].familyTime + nodes[i].startSlot * interval
             endTime == nodes[i].familyTime + nodes[i].endSlot * interval
         IN  TimeRangeLoop(nodes, interval, bad, i + 1,
                [Start |-> IF tr.Start = 0 \/ startTime < tr.Start
                           THEN startTime ELSE tr.Start,
                 End |-> IF tr.End = 0 \/ tr.End < endTime
                         THEN endTime ELSE tr.End,
                 ok |-> TRUE])

\* timeRange
TimeRangeOfNoSkip(nodes, interval, bad) == TimeRangeLoop(nodes, interval, {}, 1, NoTimeRange)

TimeRangeOf(nodes, interval, bad) == TimeRangeLoop(nodes, interval, bad, 1, NoTimeRange)

FieldInit ==
    /\ sStoreNodes = <<>>
    /\ flushed = <<>>
    /\ last = NoOp

\* the type switch of write: case *pb.Field_Sum
IsSumOrAny(kind) == TRUE

IsSum(kind) == kind = "Sum"

\* write: look the segment up; a sum field creates and inserts it when absent
\* and writes to it; any other kind is logged and dropped
Write(kind, familyTime, slot) ==
    LET got == GetSStore(sStoreNodes, familyTime)
    IN  /\ sStoreNodes' =
            IF IsSum(kind)
            THEN IF ~got.ok
                 THEN InsertSStore(sStoreNodes,
                        WriteFloat(NewSimpleFieldStore(familyTime), slot))
                 ELSE [sStoreNodes EXCEPT ![got.idx + 1] = WriteFloat(@, slot)]
            ELSE sStoreNodes
        /\ last' = [NoOp EXCEPT !.op = "write", !.familyTime = familyTime,
                                !.kind = kind, !.slot = slot]
        /\ UNCHANGED flushed
        /\ UNCHANGED <<jobVars, tagVars>>

\* flushFieldTo
FlushFieldToKeepOnError(familyTime, bytesOk) ==
    LET got == GetSStore(sStoreNodes, familyTime)
    IN  /\ Len(flushed) < MaxFlushes
        /\ IF ~got.ok
           THEN /\ UNCHANGED <<sStoreNodes, flushed>>
                /\ last' = [NoOp EXCEPT !.op = "flush", !.familyTime = familyTime,
                                        !.flushed = FALSE]
           ELSE /\ sStoreNodes' = IF bytesOk THEN RemoveSStore(sStoreNodes, familyTime)
                                  ELSE sStoreNodes
                /\ flushed' = IF bytesOk
                              THEN Append(flushed, sStoreNodes[got.idx + 1].familyTime)
                              ELSE flushed
                /\ last' = [NoOp EXCEPT !.op = "flush", !.familyTime = familyTime,
                                        !.found = TRUE,
                                        !.bytesOk = bytesOk, !.flushed = bytesOk]
        /\ UNCHANGED <<jobVars, tagVars>>

\* flushFieldTo: not found returns false; else the segment is removed, then
\* serialized (bytes), and handed to the table flusher unless bytes failed
FlushFieldTo(familyTime, bytesOk) ==
    LET got == GetSStore(sStoreNodes, familyTime)
    IN  /\ Len(flushed) < MaxFlushes
        /\ IF ~got.ok
           THEN /\ UNCHANGED <<sStoreNodes, flushed>>
                /\ last' = [NoOp EXCEPT !.op = "flush", !.familyTime = familyTime,
                                        !.flushed = FALSE]
           ELSE /\ sStoreNodes' = RemoveSStore(sStoreNodes, familyTime)
                /\ flushed' = IF bytesOk
                              THEN Append(flushed, sStoreNodes[got.idx + 1].familyTime)
                              ELSE flushed
                /\ last' = [NoOp EXCEPT !.op = "flush", !.familyTime = familyTime,
                                        !.found = TRUE,
                                        !.bytesOk = bytesOk, !.flushed = bytesOk]
        /\ UNCHANGED <<jobVars, tagVars>>

\* timeRange over the buffered segments
TimeRange(interval, bad) ==
    /\ last' = [NoOp EXCEPT !.op = "timeRange", !.interval = interval, !.bad = bad,
                            !.timeRange = TimeRangeOf(sStoreNodes, interval, bad)]
    /\ UNCHANGED <<sStoreNodes, flushed>>
    /\ UNCHANGED <<jobVars, tagVars>>

FieldNext ==
    \/ \E kind \in FieldKinds, familyTime \in FamilyTimes, slot \in Slots :
        Write(kind, familyTime, slot)
    \/ \E familyTime \in FamilyTimes, bytesOk \in BOOLEAN :
        FlushFieldTo(familyTime, bytesOk)
    \/ \E interval \in Intervals, bad \in SUBSET (1..Len(sStoreNodes)) :
        TimeRange(interval, bad)

\* --------------------------------------------------------- tag search: data
\* stmt.Expr: every expression has the same fields; kids are its operands
NilExpr == [type |-> "nil", key |-> "none", rewrite |-> "none", op |-> "none", kids |-> <<>>]

TagFilter(key, rewrite) ==
    [type |-> "tag", key |-> key, rewrite |-> rewrite, op |-> "none", kids |-> <<>>]

ParenExpr(e) ==
    [type |-> "paren", key |-> "none", rewrite |-> "none", op |-> "none", kids |-> <<e>>]

NotExpr(e) ==
    [type |-> "not", key |-> "none", rewrite |-> "none", op |-> "none", kids |-> <<e>>]

BinaryExpr(op, l, r) ==
    [type |-> "binary", key |-> "none", rewrite |-> "none", op |-> op, kids |-> <<l, r>>]

\* binary operators: stmt.AND, stmt.OR and one that is neither
Operators == {"AND", "OR", "XOR"}

\* three tag filters, two of them on the same tag key
FilterA == TagFilter("k1", "a")

FilterB == TagFilter("k1", "b")

FilterC == TagFilter("k2", "c")

TagFilters == {FilterA, FilterB, FilterC}

\* the conditions a tag search is created with: no expression, every
\* expression of one operator over the filters, and deeper trees
FlatExprs ==
    LET atoms == TagFilters \cup {NilExpr}
    IN  atoms \cup {ParenExpr(e) : e \in atoms} \cup {NotExpr(e) : e \in atoms}
            \cup {BinaryExpr(o, l, r) : o \in Operators, l \in atoms, r \in atoms}

DeepExprs ==
    { BinaryExpr("AND", FilterA, ParenExpr(BinaryExpr("OR", FilterB, NotExpr(FilterC)))),
      BinaryExpr("AND", BinaryExpr("XOR", FilterA, FilterB), FilterC),
      BinaryExpr("AND", FilterC, BinaryExpr("XOR", FilterA, FilterB)),
      BinaryExpr("OR", FilterA, NotExpr(ParenExpr(BinaryExpr("XOR", FilterB, FilterC)))),
      BinaryExpr("OR", BinaryExpr("AND", FilterA, FilterC), BinaryExpr("AND", FilterB, FilterA)),
      NotExpr(NotExpr(BinaryExpr("AND", FilterC, FilterB))) }

Conditions == FlatExprs \cup DeepExprs

\* tag key ids the metadata database may answer GetTagKeyID with
TagKeyIDs == {1, 2}

\* roaring bitmaps FindTagValueDsByExpr may answer with: nil, empty, non-empty
NilBitmap == [isNil |-> TRUE, ids |-> {}]

Bitmaps == {NilBitmap, [isNil |-> FALSE, ids |-> {}], [isNil |-> FALSE, ids |-> {7}]}

\* errors: the nil error, the metadata's errors, the tag search's own
NoTagErr == [kind |-> "nil", at |-> "nil"]

GetTagKeyIDErr(key) == [kind |-> "GetTagKeyID failed", at |-> key]

FindTagValueErr(rewrite) == [kind |-> "FindTagValueDsByExpr failed", at |-> rewrite]

WrongOperatorErr(op) == [kind |-> "wrong binary operator in tag filter", at |-> op]

\* what Filter returns: the result map (or nil) and the error
NoOut == [isNil |-> TRUE, entries |-> <<>>, err |-> NoTagErr]

\* a Go map assignment m[k] = v
MapPut(m, k, v) == [x \in DOMAIN m \cup {k} |-> IF x = k THEN v ELSE m[x]]

\* the records of tagCalls
KeyCall(key, id, err) ==
    [fn |-> "GetTagKeyID", key |-> key, rewrite |-> "none", tagKeyID |-> id,
     bitmap |-> NilBitmap, err |-> err]

FindCall(key, rewrite, id, bitmap, err) ==
    [fn |-> "FindTagValueDsByExpr", key |-> key, rewrite |-> rewrite, tagKeyID |-> id,
     bitmap |-> bitmap, err |-> err]

TagInit ==
    /\ tpc = "none"
    /\ condition = NilExpr
    /\ stack = <<>>
    /\ result = <<>>
    /\ tags = <<>>
    /\ tsErr = NoTagErr
    /\ tagCalls = <<>>
    /\ out = NoOut

\* newTagSearch, and Filter's call of findTagValueIDsByExpr(s.condition)
NewTagSearch(cond) ==
    /\ tpc = "none"
    /\ tpc' = "filter"
    /\ condition' = cond
    /\ stack' = <<cond>>
    /\ result' = <<>>
    /\ tags' = <<>>
    /\ tsErr' = NoTagErr
    /\ UNCHANGED <<tagCalls, out>>
    /\ UNCHANGED <<jobVars, fieldVars>>

\* findTagValueIDsByExpr: if s.err != nil { return }
LatchedNever == FALSE

Latched == tsErr # NoTagErr

\* a call that returns at once: expr == nil, or an error is latched
ReturnAtOnce ==
    /\ tpc = "filter" /\ stack # <<>>
    /\ Head(stack).type = "nil" \/ Latched
    /\ stack' = Tail(stack)
    /\ UNCHANGED <<tpc, condition, result, tags, tsErr, tagCalls, out>>
    /\ UNCHANGED <<jobVars, fieldVars>>

\* getTagKeyID: the cache lookup
CacheHitNever(key) == FALSE

CacheHit(key) == key \in DOMAIN tags

\* case stmt.TagFilter with the tag key in the cache: no GetTagKeyID call
\* FindTagValueDsByExpr answers with a bitmap or an error
TagFilterCached(bitmap, findErr) ==
    /\ tpc = "filter" /\ stack # <<>>
    /\ Head(stack).type = "tag" /\ ~Latched
    /\ LET expr == Head(stack) IN
        /\ CacheHit(expr.key)
        /\ tagCalls' = Append(tagCalls,
                FindCall(expr.key, expr.rewrite, tags[expr.key], bitmap, findErr))
        /\ IF findErr # NoTagErr
           THEN tsErr' = findErr /\ result' = result
           ELSE /\ tsErr' = tsErr
                /\ result' = IF ~bitmap.isNil /\ bitmap.ids # {}
                             THEN MapPut(result, expr.rewrite,
                                    [tagKey |-> tags[expr.key], tagValueIDs |-> bitmap.ids])
                             ELSE result
    /\ stack' = Tail(stack)
    /\ UNCHANGED <<tpc, condition, tags, out>>
    /\ UNCHANGED <<jobVars, fieldVars>>

\* case stmt.TagFilter with the tag key not in the cache and GetTagKeyID failing
TagFilterKeyFails ==
    /\ tpc = "filter" /\ stack # <<>>
    /\ Head(stack).type = "tag" /\ ~Latched
    /\ LET expr == Head(stack) IN
        /\ ~CacheHit(expr.key)
        /\ tagCalls' = Append(tagCalls, KeyCall(expr.key, 0, GetTagKeyIDErr(expr.key)))
        /\ tsErr' = GetTagKeyIDErr(expr.key)
    /\ stack' = Tail(stack)
    /\ UNCHANGED <<tpc, condition, result, tags, out>>
    /\ UNCHANGED <<jobVars, fieldVars>>

\* case stmt.TagFilter with the tag key not in the cache: GetTagKeyID answers
\* with an id, which is cached, then FindTagValueDsByExpr is asked
TagFilterResolved(id, bitmap, findErr) ==
    /\ tpc = "filter" /\ stack # <<>>
    /\ Head(stack).type = "tag" /\ ~Latched
    /\ LET expr == Head(stack) IN
        /\ ~CacheHit(expr.key)
        /\ tags' = MapPut(tags, expr.key, id)
        /\ tagCalls' = tagCalls \o
                <<KeyCall(expr.key, id, NoTagErr),
                  FindCall(expr.key, expr.rewrite, id, bitmap, findErr)>>
        /\ IF findErr # NoTagErr
           THEN tsErr' = findErr /\ result' = result
           ELSE /\ tsErr' = tsErr
                /\ result' = IF ~bitmap.isNil /\ bitmap.ids # {}
                             THEN MapPut(result, expr.rewrite,
                                    [tagKey |-> id, tagValueIDs |-> bitmap.ids])
                             ELSE result
    /\ stack' = Tail(stack)
    /\ UNCHANGED <<tpc, condition, out>>
    /\ UNCHANGED <<jobVars, fieldVars>>

\* the recursive calls an expression makes, in call order
CalleesSkipNot(expr) == IF expr.type = "not" THEN <<>> ELSE expr.kids

Callees(expr) == expr.kids

\* case *stmt.ParenExpr and case *stmt.NotExpr: recurse into expr.Expr
ParenOrNot ==
    /\ tpc = "filter" /\ stack # <<>>
    /\ Head(stack).type \in {"paren", "not"} /\ ~Latched
    /\ stack' = Callees(Head(stack)) \o Tail(stack)
    /\ UNCHANGED <<tpc, condition, result, tags, tsErr, tagCalls, out>>
    /\ UNCHANGED <<jobVars, fieldVars>>

\* expr.Operator != stmt.AND && expr.Operator != stmt.OR
WrongOperatorNever(op) == FALSE

WrongOperator(op) == op # "AND" /\ op # "OR"

\* case *stmt.BinaryExpr: a wrong operator latches the error, else recurse
\* into Left, then Right
Binary ==
    /\ tpc = "filter" /\ stack # <<>>
    /\ Head(stack).type = "binary" /\ ~Latched
    /\ IF WrongOperator(Head(stack).op)
       THEN /\ tsErr' = WrongOperatorErr(Head(stack).op)
            /\ stack' = Tail(stack)
       ELSE /\ tsErr' = tsErr
            /\ stack' = Callees(Head(stack)) \o Tail(stack)
    /\ UNCHANGED <<tpc, condition, result, tags, tagCalls, out>>
    /\ UNCHANGED <<jobVars, fieldVars>>

\* Filter returns: nil and s.err when an error is latched, else s.result
FilterReturn ==
    /\ tpc = "filter" /\ stack = <<>>
    /\ tpc' = "done"
    /\ out' = IF tsErr # NoTagErr
              THEN [isNil |-> TRUE, entries |-> <<>>, err |-> tsErr]
              ELSE [isNil |-> FALSE, entries |-> result, err |-> NoTagErr]
    /\ UNCHANGED <<condition, stack, result, tags, tsErr, tagCalls>>
    /\ UNCHANGED <<jobVars, fieldVars>>

TagNext ==
    \/ \E cond \in Conditions : NewTagSearch(cond)
    \/ ReturnAtOnce
    \/ \E bitmap \in Bitmaps : TagFilterCached(bitmap, NoTagErr)
    \/ TagFilterCached(NilBitmap, FindTagValueErr(Head(stack).rewrite))
    \/ TagFilterKeyFails
    \/ \E id \in TagKeyIDs, bitmap \in Bitmaps : TagFilterResolved(id, bitmap, NoTagErr)
    \/ \E id \in TagKeyIDs :
        TagFilterResolved(id, NilBitmap, FindTagValueErr(Head(stack).rewrite))
    \/ ParenOrNot
    \/ Binary
    \/ FilterReturn

Init == JobInit /\ FieldInit /\ TagInit

Next == JobNext \/ FieldNext \/ TagNext

Spec == Init /\ [][Next]_vars

JobSpec == Init /\ [][JobNext]_vars

FieldSpec == Init /\ [][FieldNext]_vars

TagSpec == Init /\ [][TagNext]_vars


\* ------------------------------------------------- job manager: properties
\* the indicators a call has sent to, in the order of the sends
Targets(c) == [i \in 1..Len(sent[c]) |-> sent[c][i].target]

IsPrefix(s, t) == Len(s) <= Len(t) /\ \A i \in 1..Len(s) : s[i] = t[i]

Started(c) == pc[c] # "idle"

Done(c) == pc[c] = "done"

\* the indicators of a tier as a set
Indicators(tier) == {tier[i] : i \in 1..Len(tier)}

\* C1: under every interleaving of SubmitJob and SubmitMetadataJob calls the
\* job ids come out strictly increasing in allocation order, no two calls hold
\* the same id, and the counter is the last id handed out (it never goes back).
C1_JobIDsUniqueIncreasing ==
    /\ \A i, j \in 1..Len(allocLog) : i < j => allocLog[i] < allocLog[j]
    /\ Len(allocLog) > 0 => seq = allocLog[Len(allocLog)]
    /\ \A c, d \in Callers :
        (c # d /\ Started(c) /\ Started(d)) => call[c].jobID # call[d].jobID
    /\ \A c \in Callers :
        Started(c) => \E i \in 1..Len(allocLog) : allocLog[i] = call[c].jobID

\* two calls, one of each method, hold job ids at the same time
C1_Witness ==
    \E c, d \in Callers :
        /\ call[c].method = "SubmitJob" /\ pc[c] = "alloc"
        /\ call[d].method = "SubmitMetadataJob" /\ pc[d] = "alloc"

\* C2: once SubmitJob has returned, GetJob(jobID) is the submitted job context
\* if it returned nil and is nil (not found) if it returned an error, in every
\* later state.
C2_SubmitJobRegisteredIffNil ==
    \A c \in Callers :
        (Done(c) /\ call[c].method = "SubmitJob") =>
            /\ ret[c] = Nil => GetJob(call[c].jobID) = call[c].ctx
            /\ ret[c] # Nil => GetJob(call[c].jobID) = NilJobContext

\* a SubmitJob that returned nil beside a SubmitJob that returned an error
C2_Witness ==
    \E c, d \in Callers :
        /\ Done(c) /\ call[c].method = "SubmitJob" /\ ret[c] = Nil
        /\ Done(d) /\ call[d].method = "SubmitJob" /\ ret[d] # Nil

\* C3: once SubmitMetadataJob has returned, GetJob(jobID) is non-nil if and
\* only if it returned no error.
C3_MetadataJobRegisteredIffNil ==
    \A c \in Callers :
        (Done(c) /\ call[c].method = "SubmitMetadataJob") =>
            (ret[c] = Nil <=> GetJob(call[c].jobID) # NilJobContext)

\* C4: a SubmitJob sends to the intermediates in plan order when there is one,
\* else to the leaves in plan order: while it runs the targets are a prefix of
\* that tier, and once it returned nil they are the whole tier, one request per
\* entry, every request carrying the call's job id and one parent task id, and
\* no leaf is contacted when an intermediate exists.
C4_JobFanOutTier ==
    \A c \in Callers :
        call[c].method = "SubmitJob" =>
            LET plan == call[c].plan
                want == IF Len(plan.Intermediates) >= 1 THEN plan.Intermediates
                        ELSE plan.Leafs
            IN  /\ IsPrefix(Targets(c), want)
                /\ (Done(c) /\ ret[c] = Nil) => Targets(c) = want
                /\ Len(plan.Intermediates) >= 1 =>
                        \A i \in 1..Len(sent[c]) :
                            sent[c][i].target \notin Indicators(plan.Leafs)
                /\ \A i \in 1..Len(sent[c]) :
                        /\ sent[c][i].req.JobID = call[c].jobID
                        /\ sent[c][i].req = sent[c][1].req
                        /\ sent[c][i].req.ParentTaskID \in {t.taskID : t \in submitted}

\* a two-tier SubmitJob and a leaf-only SubmitJob both returned nil
C4_Witness ==
    \E c, d \in Callers :
        /\ Done(c) /\ call[c].method = "SubmitJob" /\ ret[c] = Nil
        /\ call[c].plan = PlanTwoTier /\ Len(sent[c]) = 2
        /\ Done(d) /\ call[d].method = "SubmitJob" /\ ret[d] = Nil
        /\ call[d].plan = PlanLeafOnly /\ Len(sent[d]) = 2

\* C5: when the k-th send of a SubmitJob fails, it is the last send of the call
\* (nodes k+1..n are never contacted), the sends made are the first k entries
\* of the tier, once each (nothing is retried, nothing else is sent), the call
\* returns exactly that error, and the job id is not in the registry.
C5_FirstFailureAborts ==
    \A c \in Callers :
        call[c].method = "SubmitJob" =>
            /\ \A i \in 1..Len(sent[c]) : sent[c][i].err # Nil => i = Len(sent[c])
            /\ IsPrefix(Targets(c), JobTier(call[c].plan))
            /\ \A i \in 1..Len(sent[c]) : sent[c][i].req = call[c].req
            /\ LastErr(c) # Nil => call[c].jobID \notin DOMAIN jobs
            /\ (Done(c) /\ LastErr(c) # Nil) => ret[c] = LastErr(c)

\* a SubmitJob returned after its first send failed with a tier of two nodes,
\* and another after its second send failed
C5_Witness ==
    \E c, d \in Callers :
        /\ Done(c) /\ call[c].method = "SubmitJob" /\ Len(Tier(c)) = 2
        /\ Len(sent[c]) = 1 /\ sent[c][1].err = "e2"
        /\ Done(d) /\ call[d].method = "SubmitJob" /\ Len(Tier(d)) = 2
        /\ Len(sent[d]) = 2 /\ sent[d][2].err = "e1"

\* C6: a SubmitMetadataJob sends only to the leaves, in plan order, also when
\* the plan has intermediates: no intermediate's indicator is ever a target and
\* every request carries the metadata request kind.
C6_MetadataLeavesOnly ==
    \A c \in Callers :
        call[c].method = "SubmitMetadataJob" =>
            /\ IsPrefix(Targets(c), call[c].plan.Leafs)
            /\ (Done(c) /\ ret[c] = Nil) => Targets(c) = call[c].plan.Leafs
            /\ \A i \in 1..Len(sent[c]) :
                /\ sent[c][i].target \notin Indicators(call[c].plan.Intermediates)
                /\ sent[c][i].req.RequestType = RequestType_Metadata

\* a metadata job on the two-tier plan returned nil after its one send
C6_Witness ==
    \E c \in Callers :
        /\ Done(c) /\ call[c].method = "SubmitMetadataJob" /\ ret[c] = Nil
        /\ call[c].plan = PlanTwoTier /\ Len(sent[c]) = 1

\* ------------------------------------------------- field store: properties
\* the positions of the segments of a family time in a segment list
Positions(nodes, familyTime) ==
    {i \in 1..Len(nodes) : nodes[i].familyTime = familyTime}

Has(nodes, familyTime) == Positions(nodes, familyTime) # {}

\* the segment of a family time, where the list holds one
SegmentOf(nodes, familyTime) ==
    nodes[CHOOSE i \in Positions(nodes, familyTime) : TRUE]

SetMin(S) == CHOOSE x \in S : \A y \in S : x <= y

SetMax(S) == CHOOSE x \in S : \A y \in S : y <= x

\* C7: after any sequence of writes and flushes the segment list is strictly
\* ascending by family time, so it holds one segment per family time at most.
C7_SortedNoDuplicates ==
    \A i \in 1..(Len(sStoreNodes) - 1) :
        sStoreNodes[i].familyTime < sStoreNodes[i + 1].familyTime

\* three segments are buffered after a flush, the smallest family time written last
C7_Witness ==
    /\ Len(sStoreNodes) = 3
    /\ Len(flushed) >= 1
    /\ last.op = "write" /\ last.kind = "Sum" /\ last.familyTime = 0

\* C8: a sum write of family time T leaves exactly one segment of T, creates
\* one only when none was buffered, widens that segment (and no other) by the
\* written slot, and every buffered segment is found by its family time.
C8_WriteRouting ==
    [][(last'.op = "write" /\ last'.kind = "Sum") =>
        LET T == last'.familyTime
            had == Has(sStoreNodes, T)
            new == SegmentOf(sStoreNodes', T)
            old == SegmentOf(sStoreNodes, T)
        IN  /\ Cardinality(Positions(sStoreNodes', T)) = 1
            /\ Len(sStoreNodes') = IF had THEN Len(sStoreNodes) ELSE Len(sStoreNodes) + 1
            /\ ~had => (new.startSlot = last'.slot /\ new.endSlot = last'.slot)
            /\ had => /\ new.startSlot = SetMin({old.startSlot, last'.slot})
                      /\ new.endSlot = SetMax({old.endSlot, last'.slot})
            /\ \A U \in FamilyTimes \ {T} :
                /\ Has(sStoreNodes', U) = Has(sStoreNodes, U)
                /\ Has(sStoreNodes, U) =>
                        SegmentOf(sStoreNodes', U) = SegmentOf(sStoreNodes, U)
            /\ \A i \in 1..Len(sStoreNodes') :
                GetSStore(sStoreNodes', sStoreNodes'[i].familyTime) =
                    [ok |-> TRUE, idx |-> i - 1]
    ]_vars

\* two segments are buffered and the one just written to holds two slots
C8_Witness ==
    /\ last.op = "write" /\ last.kind = "Sum"
    /\ Len(sStoreNodes) = 2
    /\ Has(sStoreNodes, last.familyTime)
    /\ SegmentOf(sStoreNodes, last.familyTime).startSlot
            < SegmentOf(sStoreNodes, last.familyTime).endSlot

\* C9 as stated: a flush of a family time with no segment returns false and
\* calls the flusher zero times, a flush of a buffered family time returns true
\* and calls the flusher exactly once, and a flush right after a flush of the
\* same family time returns false.
C9_FlushAsStated ==
    [][last'.op = "flush" =>
        LET T == last'.familyTime
            had == Has(sStoreNodes, T)
        IN  /\ ~had => (last'.flushed = FALSE /\ flushed' = flushed)
            /\ had => (last'.flushed = TRUE /\ flushed' = Append(flushed, T))
            /\ (last.op = "flush" /\ last.familyTime = T) => last'.flushed = FALSE
    ]_vars

\* C9 amended: a flush of a buffered family time removes the segment; it returns
\* true and calls the flusher exactly once when the segment's bytes() succeeds,
\* and returns false and calls it zero times when bytes() fails.
C9_FlushOnce ==
    [][last'.op = "flush" =>
        LET T == last'.familyTime
            had == Has(sStoreNodes, T)
        IN  /\ ~had => (last'.flushed = FALSE /\ flushed' = flushed)
            /\ (had /\ last'.bytesOk) =>
                    (last'.flushed = TRUE /\ flushed' = Append(flushed, T))
            /\ (had /\ ~last'.bytesOk) => (last'.flushed = FALSE /\ flushed' = flushed)
            /\ had => ~Has(sStoreNodes', T)
            /\ (last.op = "flush" /\ last.familyTime = T) => last'.flushed = FALSE
    ]_vars

\* the middle one of three written family times was flushed to the table
C9_Witness ==
    /\ last.op = "flush" /\ last.flushed /\ last.familyTime = 10
    /\ Len(sStoreNodes) = 2
    /\ flushed = <<10>>

\* the start and end timestamps of the buffered segments under an interval
StartTimes(nodes, interval) ==
    {nodes[i].familyTime + nodes[i].startSlot * interval : i \in 1..Len(nodes)}

EndTimes(nodes, interval) ==
    {nodes[i].familyTime + nodes[i].endSlot * interval : i \in 1..Len(nodes)}

\* C10: when every buffered segment reports its slot range, timeRange returns
\* the minimum of the segments' start timestamps and the maximum of their end
\* timestamps, a timestamp of 0 included.
C10_TimeRangeMinMax ==
    (last.op = "timeRange" /\ last.bad = {} /\ Len(sStoreNodes) > 0) =>
        /\ last.timeRange.Start = SetMin(StartTimes(sStoreNodes, last.interval))
        /\ last.timeRange.End = SetMax(EndTimes(sStoreNodes, last.interval))

\* the segments of a list whose index is not in bad, in list order
RECURSIVE GoodNodes(_, _, _)
GoodNodes(nodes, bad, i) ==
    IF i > Len(nodes) THEN <<>>
    ELSE IF i \in bad THEN GoodNodes(nodes, bad, i + 1)
    ELSE <<nodes[i]>> \o GoodNodes(nodes, bad, i + 1)

\* C11: timeRange returns ok = true exactly when a buffered segment reports a
\* valid slot range (so ok = false over zero segments); the segments whose
\* slotRange fails leave Start and End as they are: the result is the one over
\* the valid segments alone, drawn from their timestamps, and is all zero when
\* there is none; and timeRange leaves the segment list alone.
C11_TimeRangeSkipsFailed ==
    [][last'.op = "timeRange" =>
        LET good == GoodNodes(sStoreNodes, last'.bad, 1)
            tr == last'.timeRange
        IN  /\ tr.ok <=> (\E i \in 1..Len(sStoreNodes) : i \notin last'.bad)
            /\ Len(sStoreNodes) = 0 => tr = NoTimeRange
            /\ Len(good) = 0 => tr = NoTimeRange
            /\ Len(good) > 0 =>
                /\ tr.Start \in StartTimes(good, last'.interval)
                /\ tr.End \in EndTimes(good, last'.interval)
            /\ tr = TimeRangeOf(good, last'.interval, {})
            /\ sStoreNodes' = sStoreNodes
            /\ flushed' = flushed
    ]_vars

\* timeRange ran over three segments of which the first and the last failed
C11_Witness ==
    /\ last.op = "timeRange" /\ last.bad = {1, 3} /\ Len(sStoreNodes) = 3
    /\ last.timeRange.ok
    /\ last.timeRange.Start = 10 + sStoreNodes[2].startSlot * last.interval

\* C16 as stated: the table flusher is called at most once for any family time.
C16_FlushedAtMostOncePerFamily ==
    \A i, j \in 1..Len(flushed) : i # j => flushed[i] # flushed[j]

\* C16 amended: every call of the table flusher hands over the segment that
\* was buffered for its family time and takes it out of the list, and a segment
\* of a family time only comes into the list by a sum write of that family
\* time: so a family time is flushed again only after it was written again.
C16_FlushedOncePerSegment ==
    [][/\ flushed' # flushed =>
            \E T \in FamilyTimes :
                /\ flushed' = Append(flushed, T)
                /\ last'.op = "flush" /\ last'.familyTime = T
                /\ Cardinality(Positions(sStoreNodes, T)) = 1
                /\ ~Has(sStoreNodes', T)
       /\ \A T \in FamilyTimes :
            (Has(sStoreNodes', T) /\ ~Has(sStoreNodes, T)) =>
                (last'.op = "write" /\ last'.kind = "Sum" /\ last'.familyTime = T)
    ]_vars

\* one family time was flushed twice, its segment written again in between
C16_Witness ==
    /\ flushed = <<10, 10>>
    /\ last.op = "flush" /\ last.flushed /\ last.familyTime = 10

\* C17: when bytes() fails in a flush of a buffered family time, the call
\* returns false, the flusher is not called, and the segment is gone from the
\* list (the others stay): a lookup of the family time finds nothing, and a
\* flush that follows for the same family time returns false and flushes nothing.
C17_BytesFailureDropsSegment ==
    [][/\ (last'.op = "flush" /\ Has(sStoreNodes, last'.familyTime) /\ ~last'.bytesOk) =>
            /\ last'.flushed = FALSE
            /\ flushed' = flushed
            /\ ~Has(sStoreNodes', last'.familyTime)
            /\ ~GetSStore(sStoreNodes', last'.familyTime).ok
            /\ Len(sStoreNodes') = Len(sStoreNodes) - 1
            /\ \A U \in FamilyTimes \ {last'.familyTime} :
                Has(sStoreNodes, U) =>
                    /\ Has(sStoreNodes', U)
                    /\ SegmentOf(sStoreNodes', U) = SegmentOf(sStoreNodes, U)
       /\ (/\ last.op = "flush" /\ last.found /\ ~last.bytesOk
           /\ last'.op = "flush" /\ last'.familyTime = last.familyTime) =>
            (last'.flushed = FALSE /\ ~last'.found /\ flushed' = flushed)
    ]_vars

\* a flush found the segment of the middle family time and its bytes() failed
C17_Witness ==
    /\ last.op = "flush" /\ last.found /\ ~last.bytesOk /\ ~last.flushed
    /\ last.familyTime = 10
    /\ Len(sStoreNodes) = 2
    /\ flushed = <<>>

\* C18: a write of a field kind other than sum leaves the field store as it
\* was, whether or not a segment of its family time is buffered: the segment
\* list (no segment created, none written to) and the flusher's log are unchanged.
C18_UnknownKindDropped ==
    [][(last'.op = "write" /\ last'.kind # "Sum") =>
        (sStoreNodes' = sStoreNodes /\ flushed' = flushed)
    ]_vars

\* a write of another kind came in for a buffered family time while another
\* family time has no segment
C18_Witness ==
    /\ last.op = "write" /\ last.kind = "Other"
    /\ Has(sStoreNodes, last.familyTime)
    /\ Len(sStoreNodes) = 1

\* the root task context a call hands to taskManager.Submit
RootTaskOf(c) == [taskID |-> AllocTaskID(c), taskType |-> "RootTask"]

\* the job ids handed out so far
Allocated == {allocLog[i] : i \in 1..Len(allocLog)}

\* C19: a SubmitJob on a plan without intermediates and without leaves never
\* sends a request; it has its job id from the counter, and once it returned it
\* returned nil, its root task context is with the task manager and GetJob
\* gives its job context.
C19_ZeroDispatchRegisters ==
    \A c \in Callers :
        (call[c].method = "SubmitJob" /\ call[c].plan = PlanEmpty) =>
            /\ sent[c] = <<>>
            /\ call[c].jobID \in Allocated
            /\ Done(c) =>
                /\ ret[c] = Nil
                /\ GetJob(call[c].jobID) = call[c].ctx
                /\ RootTaskOf(c) \in submitted

\* a SubmitJob on the empty plan has returned
C19_Witness ==
    \E c \in Callers :
        /\ Done(c) /\ call[c].method = "SubmitJob" /\ call[c].plan = PlanEmpty
        /\ call[c].jobID \in DOMAIN jobs

\* C20: from the first SendRequest of a SubmitJob until it returns, the root
\* task context is already with the task manager and GetJob(jobID) finds
\* nothing, although the requests sent carry that job id; and after a SubmitJob
\* that returned an error the root task context is still with the task manager,
\* the job is not in the registry, and its job id stays used up (the counter is
\* past it and no other call holds it).
C20_RegisteredOnlyAfterFanOut ==
    \A c \in Callers :
        call[c].method = "SubmitJob" =>
            /\ pc[c] = "send" =>
                /\ RootTaskOf(c) \in submitted
                /\ call[c].jobID \notin DOMAIN jobs
                /\ GetJob(call[c].jobID) = NilJobContext
                /\ \A i \in 1..Len(sent[c]) : sent[c][i].req.JobID = call[c].jobID
            /\ pc[c] = "alloc" => (sent[c] = <<>> /\ call[c].jobID \notin DOMAIN jobs)
            /\ (Done(c) /\ ret[c] # Nil) =>
                /\ RootTaskOf(c) \in submitted
                /\ GetJob(call[c].jobID) = NilJobContext
                /\ call[c].jobID \notin DOMAIN jobs
                /\ seq >= call[c].jobID
                /\ \A d \in Callers \ {c} : Started(d) => call[d].jobID # call[c].jobID

\* one SubmitJob is between its first send and its return while another has
\* returned an error
C20_Witness ==
    \E c, d \in Callers :
        /\ call[c].method = "SubmitJob" /\ pc[c] = "send"
        /\ Len(sent[c]) = 1 /\ sent[c][1].err = Nil
        /\ call[d].method = "SubmitJob" /\ Done(d) /\ ret[d] # Nil

\* ---------------------------------------------------- tag search: properties
\* the tag filters of an expression tree, whatever encloses them
RECURSIVE LeavesOf(_)
LeavesOf(e) ==
    IF e.type = "tag" THEN {e}
    ELSE UNION {LeavesOf(e.kids[i]) : i \in 1..Len(e.kids)}

\* the tree holds a binary node whose operator is neither AND nor OR
RECURSIVE HasWrongOperator(_)
HasWrongOperator(e) ==
    \/ e.type = "binary" /\ e.op \notin {"AND", "OR"}
    \/ \E i \in 1..Len(e.kids) : HasWrongOperator(e.kids[i])

\* the tag filters that do not sit below such a node
RECURSIVE LeavesOutsideWrongOperator(_)
LeavesOutsideWrongOperator(e) ==
    IF e.type = "tag" THEN {e}
    ELSE IF e.type = "binary" /\ e.op \notin {"AND", "OR"} THEN {}
    ELSE UNION {LeavesOutsideWrongOperator(e.kids[i]) : i \in 1..Len(e.kids)}

CallsOf(fn) == {i \in 1..Len(tagCalls) : tagCalls[i].fn = fn}

FailedCalls == {i \in 1..Len(tagCalls) : tagCalls[i].err # NoTagErr}

\* the FindTagValueDsByExpr calls that were answered with a non-empty bitmap
Matches ==
    {i \in CallsOf("FindTagValueDsByExpr") :
        /\ tagCalls[i].err = NoTagErr
        /\ ~tagCalls[i].bitmap.isNil
        /\ tagCalls[i].bitmap.ids # {}}

ABOrNotC ==
    BinaryExpr("AND", FilterA, ParenExpr(BinaryExpr("OR", FilterB, NotExpr(FilterC))))

\* C12: for a tree of tag filters, parentheses, NOT, AND and OR in which no
\* lookup fails, Filter returns no error and a map whose keys are exactly the
\* rewritten strings of the filters that matched a non-empty set: every filter
\* of the tree is asked for, under NOT as well and under AND as under OR, an
\* entry holds the filter's tag key id and value ids, an absent expression
\* gives an empty map, and A AND (B OR NOT C) with three matches three entries.
C12_FilterCollectsLeaves ==
    (tpc = "done" /\ ~HasWrongOperator(condition) /\ FailedCalls = {}) =>
        /\ out.err = NoTagErr
        /\ ~out.isNil
        /\ {tagCalls[i].rewrite : i \in CallsOf("FindTagValueDsByExpr")}
                = {l.rewrite : l \in LeavesOf(condition)}
        /\ DOMAIN out.entries = {tagCalls[i].rewrite : i \in Matches}
        /\ \A r \in DOMAIN out.entries :
            \E i \in Matches :
                /\ tagCalls[i].rewrite = r
                /\ out.entries[r] = [tagKey |-> tagCalls[i].tagKeyID,
                                     tagValueIDs |-> tagCalls[i].bitmap.ids]
        /\ condition = NilExpr => (out.entries = <<>> /\ tagCalls = <<>>)
        /\ (condition = ABOrNotC /\ Cardinality(Matches) = 3) =>
                DOMAIN out.entries = {"a", "b", "c"}

\* Filter returned three entries for A AND (B OR NOT C)
C12_Witness ==
    /\ tpc = "done" /\ condition = ABOrNotC
    /\ out.err = NoTagErr
    /\ DOMAIN out.entries = {"a", "b", "c"}

\* C13 as stated: a tree with a wrong binary operator makes Filter return nil
\* with the wrong-operator error, wherever the node sits.
C13_WrongOperatorAlwaysReported ==
    (tpc = "done" /\ HasWrongOperator(condition)) =>
        /\ out.isNil
        /\ out.err.kind = "wrong binary operator in tag filter"

\* C13 amended: a tree with a wrong binary operator makes Filter return nil
\* with an error: the wrong-operator error unless a lookup of a filter visited
\* before that node failed, and then that lookup's error; the filters below
\* the offending node are never looked up.
C13_WrongOperatorOrEarlierError ==
    HasWrongOperator(condition) =>
        /\ \A i \in 1..Len(tagCalls) :
            /\ tagCalls[i].key \in {l.key : l \in LeavesOutsideWrongOperator(condition)}
            /\ tagCalls[i].fn = "FindTagValueDsByExpr" =>
                tagCalls[i].rewrite \in
                    {l.rewrite : l \in LeavesOutsideWrongOperator(condition)}
        /\ tpc = "done" =>
            /\ out.isNil /\ out.entries = <<>>
            /\ out.err # NoTagErr
            /\ FailedCalls = {} => out.err.kind = "wrong binary operator in tag filter"
            /\ \A i \in FailedCalls : out.err = tagCalls[i].err

\* the wrong operator sits in the right branch, below an AND whose left filter
\* matched, and was reported
C13_Witness ==
    /\ tpc = "done"
    /\ condition = BinaryExpr("AND", FilterC, BinaryExpr("XOR", FilterA, FilterB))
    /\ result # <<>>
    /\ out.isNil /\ out.err = WrongOperatorErr("XOR")

\* C14: a tag search calls GetTagKeyID at most once per tag key name; every
\* FindTagValueDsByExpr call carries the id that one call returned, and the
\* cache holds exactly the ids returned.
C14_OneLookupPerTagKey ==
    /\ \A i, j \in CallsOf("GetTagKeyID") :
            tagCalls[i].key = tagCalls[j].key => i = j
    /\ \A i \in CallsOf("FindTagValueDsByExpr") :
            \E j \in CallsOf("GetTagKeyID") :
                /\ j < i
                /\ tagCalls[j].key = tagCalls[i].key
                /\ tagCalls[j].err = NoTagErr
                /\ tagCalls[j].tagKeyID = tagCalls[i].tagKeyID
    /\ DOMAIN tags =
            {tagCalls[j].key : j \in {k \in CallsOf("GetTagKeyID") : tagCalls[k].err = NoTagErr}}
    /\ \A j \in CallsOf("GetTagKeyID") :
            tagCalls[j].err = NoTagErr => tags[tagCalls[j].key] = tagCalls[j].tagKeyID

\* two filters on one tag key were resolved with one GetTagKeyID call
C14_Witness ==
    /\ tpc = "done"
    /\ condition = BinaryExpr("AND", FilterA, FilterB)
    /\ Cardinality(CallsOf("GetTagKeyID")) = 1
    /\ Cardinality(CallsOf("FindTagValueDsByExpr")) = 2

\* C15: once an error is latched no metadata call is made, no result entry is
\* recorded and the error stays; the latched error is the one of the step
\* that failed first (the failing call is the last call made, or the wrong
\* operator when no call failed); and Filter returns exactly it with a nil result.
C15_FirstErrorLatched ==
    [][/\ tsErr # NoTagErr =>
            (tsErr' = tsErr /\ tagCalls' = tagCalls /\ result' = result /\ tags' = tags)
       /\ (tsErr = NoTagErr /\ tsErr' # NoTagErr) =>
            /\ result' = result
            /\ tagCalls' = tagCalls =>
                    tsErr'.kind = "wrong binary operator in tag filter"
            /\ tagCalls' # tagCalls =>
                    /\ tagCalls'[Len(tagCalls')].err = tsErr'
                    /\ \A i \in 1..(Len(tagCalls') - 1) : tagCalls'[i].err = NoTagErr
       /\ (tpc' = "done" /\ tsErr' # NoTagErr) =>
            out' = [isNil |-> TRUE, entries |-> <<>>, err |-> tsErr']
       /\ (tpc' = "done" /\ tsErr' = NoTagErr) => out'.err = NoTagErr
    ]_vars

\* Filter returned nil and the tag index error of the second filter although
\* the first filter had matched
C15_Witness ==
    /\ tpc = "done"
    /\ condition = ABOrNotC
    /\ DOMAIN result = {"a"}
    /\ out.isNil /\ out.err = FindTagValueErr("b")
    /\ Len(tagCalls) = 3

====
